---- MODULE Spec2Model ----
(***************************************************************************)
(* Model of application.cpp: Application::construct (top-down BVH build)  *)
(* and Application::test_collision (dual-tree traversal).                 *)
(*                                                                         *)
(* Coordinates are small integers.  The split coordinate of construct is  *)
(* a midpoint (min + max) / 2.0f; the model keeps every value that is     *)
(* compared with it doubled, so that all comparisons stay in the integers *)
(* and are exact.                                                          *)
(***************************************************************************)
EXTENDS Integers, Sequences, FiniteSets

(* ---------------------------------------------------------------------- *)
(* Bounds of the model                                                     *)
(* ---------------------------------------------------------------------- *)
MaxTris == 3
MaxDepth == 2
MaxMinTris == 3

(* ---------------------------------------------------------------------- *)
(* Geometry                                                                *)
(* ---------------------------------------------------------------------- *)
Axes == 1 .. 3

\* A triangle is <<v1, v2, v3>>, a vertex is <<x, y, z>>.
Pool ==
  << << <<0, 0, 0>>, <<1, 0, 0>>, <<0, 1, 0>> >>,
     << <<5, 0, 0>>, <<6, 0, 0>>, <<5, 1, 0>> >>,
     << <<2, 0, 0>>, <<4, 1, 0>>, <<2, 1, 1>> >>,
     << <<1, 5, 0>>, <<0, 7, 0>>, <<1, 6, 1>> >>,
     << <<1, 1, 6>>, <<2, 2, 8>>, <<1, 2, 7>> >>,
     << <<0, 0, 0>>, <<6, 0, 0>>, <<0, 2, 0>> >> >>

PoolA == {1, 2, 3, 4, 6}
PoolB == {1, 5}

\* Triangle lists a caller can hand to construct: strictly increasing
\* selections of pool triangles, the empty list included.
RECURSIVE IncreasingSeqs(_, _)
IncreasingSeqs(S, n) ==
  IF n = 0 THEN { <<>> }
  ELSE LET shorter == IncreasingSeqs(S, n - 1)
       IN  shorter \cup
           { Append(s, i) : s \in { t \in shorter : Len(t) = n - 1 },
                            i \in S }

IsIncreasing(s) == \A i \in 1 .. Len(s) - 1 : s[i] < s[i + 1]

MeshLists(S) ==
  { [i \in 1 .. Len(s) |-> Pool[s[i]]] :
      s \in { t \in IncreasingSeqs(S, MaxTris) : IsIncreasing(t) } }

MinOf(S) == CHOOSE x \in S : \A y \in S : x <= y
MaxOf(S) == CHOOSE x \in S : \A y \in S : x >= y

Range(s) == { s[i] : i \in 1 .. Len(s) }

\* Triangle::getVertices
getVertices(tr) == { tr[1], tr[2], tr[3] }

(* ---------------------------------------------------------------------- *)
(* State                                                                   *)
(* ---------------------------------------------------------------------- *)
VARIABLES
  mesh,        \* mesh[m]: the triangle list of mesh m (geometry)
  cfgDepth,    \* max_depth the application builds both trees with
  cfgMinTris,  \* min_triangles_for_split the application builds with
  phase,       \* "construct", "aborted", "ready", "test", "done"
  building,    \* the mesh whose tree is under construction
  tree,        \* tree[m]: node address -> BVHNode of mesh m
  root,        \* root[m]: address of the node construct returned, or NoNode
  stack,       \* call stack of construct, innermost call last
  ret,         \* node a construct call has just returned, or NoNode
  argDepth,    \* argDepth[m][n]: max_depth argument of the call that made n
  triCollision,\* triCollision[m][t]: Triangle::collision of triangle t
  matrices,    \* << first_matrix, second_matrix >> of the current call
  oracle,      \* which triangle-intersection primitive the build links
  work,        \* pending test_collision calls, the next one last
  calls,       \* test_collision calls that have returned to the caller
  cleanStart,  \* all flags were false when the current call started
  before,      \* the flags when the current call started
  afterFirst   \* the flags when the first call returned

buildVars == << mesh, cfgDepth, cfgMinTris, building, root, stack, ret,
                argDepth >>
testVars == << triCollision, matrices, oracle, work, calls, cleanStart,
               before, afterFirst >>
vars == << mesh, cfgDepth, cfgMinTris, phase, building, tree, root, stack,
           ret, argDepth, triCollision, matrices, oracle, work, calls,
           cleanStart, before, afterFirst >>

Meshes == 1 .. 2

\* A node address is the path of child selections from the root.
NoNode == << -1 >>
RootAddr == << >>

\* Triangle pointers of mesh m are indexes into mesh[m].
Tri(m, t) == mesh[m][t]

(* ---------------------------------------------------------------------- *)
(* Application::construct                                                  *)
(* ---------------------------------------------------------------------- *)

\* Depth counter of a node the constructor has just made.  BVHNode is
\* declared outside application.cpp; 1 is the value for which a build with
\* max_depth = 0 yields the root alone, as the design documents.
NewNodeDepth == 1

\* Lines 21-37 with the initial value dropped in favour of the origin.
minPointFromOrigin(m, triangles) ==
  [a \in Axes |->
     MinOf({0} \cup
           { v[a] : v \in UNION { getVertices(Tri(m, triangles[i])) :
                                    i \in 1 .. Len(triangles) } })]

\* Lines 21-37: minPoint starts at the first triangle's v1 and is lowered
\* by every vertex of every triangle.
minPoint(m, triangles) ==
  [a \in Axes |->
     MinOf({ Tri(m, triangles[1])[1][a] } \cup
           { v[a] : v \in UNION { getVertices(Tri(m, triangles[i])) :
                                    i \in 1 .. Len(triangles) } })]

\* Lines 22-37: maxPoint starts at the same vertex and is raised.
maxPoint(m, triangles) ==
  [a \in Axes |->
     MaxOf({ Tri(m, triangles[1])[1][a] } \cup
           { v[a] : v \in UNION { getVertices(Tri(m, triangles[i])) :
                                    i \in 1 .. Len(triangles) } })]

Abs(x) == IF x < 0 THEN -x ELSE x

\* Lines 50-71: the axis of the longest edge, x before y before z.
splitAxis(lo, hi) ==
  LET xLength == Abs(hi[1] - lo[1])
      yLength == Abs(hi[2] - lo[2])
      zLength == Abs(hi[3] - lo[3])
  IN  IF xLength >= yLength /\ xLength >= zLength THEN 1
      ELSE IF yLength >= xLength /\ yLength >= zLength THEN 2
      ELSE 3

\* Lines 59, 64, 69: twice the split coordinate (min + max) / 2.
splitCoord2(lo, hi) == lo[splitAxis(lo, hi)] + hi[splitAxis(lo, hi)]

\* Lines 100-125: the list a triangle is pushed to.
side(tr, axis, split2) ==
  LET firstVertexCoord == tr[1][axis]
      secondVertexCoord == tr[2][axis]
      thirdVertexCoord == tr[3][axis]
      minDistance == MinOf({firstVertexCoord, secondVertexCoord, thirdVertexCoord})
      maxDistance == MaxOf({firstVertexCoord, secondVertexCoord, thirdVertexCoord})
  IN  IF /\ 2 * firstVertexCoord <= split2
         /\ 2 * secondVertexCoord <= split2
         /\ 2 * thirdVertexCoord <= split2
      THEN "left"
      ELSE IF /\ 2 * firstVertexCoord > split2
              /\ 2 * secondVertexCoord > split2
              /\ 2 * thirdVertexCoord > split2
      THEN "right"
      ELSE IF split2 - 2 * minDistance >= 2 * maxDistance - split2
      THEN "left"
      ELSE "right"

\* Lines 43, 78-126: leftTriangles after the loop, in list order.
leftTriangles(m, triangles) ==
  LET lo == minPoint(m, triangles)
      hi == maxPoint(m, triangles)
  IN  SelectSeq(triangles,
        LAMBDA t : side(Tri(m, t), splitAxis(lo, hi), splitCoord2(lo, hi)) = "left")

\* Lines 105-124 with the second test not chained to the first by else:
\* a triangle with a vertex right of the plane is pushed right as well.
rightTrianglesUnchained(m, triangles) ==
  LET lo == minPoint(m, triangles)
      hi == maxPoint(m, triangles)
  IN  SelectSeq(triangles,
        LAMBDA t : \E k \in 1 .. 3 :
          2 * Tri(m, t)[k][splitAxis(lo, hi)] > splitCoord2(lo, hi))

\* Lines 44, 78-126: rightTriangles after the loop, in list order.
rightTriangles(m, triangles) ==
  LET lo == minPoint(m, triangles)
      hi == maxPoint(m, triangles)
  IN  SelectSeq(triangles,
        LAMBDA t : side(Tri(m, t), splitAxis(lo, hi), splitCoord2(lo, hi)) = "right")

\* BVHNode::get_depth
get_depth(node) == node.depth

\* Lines 129-130 with the comparison off by one.
canSplitOffByOne(left, right, node, max_depth) ==
  Len(left) > 0 /\ Len(right) > 0 /\ get_depth(node) <= max_depth + 1

\* Lines 129-130 without the test of the right half.
canSplitLeftOnly(left, right, node, max_depth) ==
  Len(left) > 0 /\ get_depth(node) <= max_depth

\* Lines 129-130: the node gets children.
canSplit(left, right, node, max_depth) ==
  Len(left) > 0 /\ Len(right) > 0 /\ get_depth(node) <= max_depth

\* Lines 132-148 with the small side keeping the caller's budget.
childDepthKept(half, max_depth, min_triangles_for_split) ==
  IF Len(half) >= min_triangles_for_split THEN max_depth - 1 ELSE max_depth

\* Lines 132-148 with max_depth passed on without the decrement.
childDepthNotLowered(half, max_depth, min_triangles_for_split) ==
  IF Len(half) >= min_triangles_for_split THEN max_depth ELSE 0

\* Lines 132-148: the max_depth passed to the call for one half.
childDepth(half, max_depth, min_triangles_for_split) ==
  IF Len(half) >= min_triangles_for_split THEN max_depth - 1 ELSE 0

\* Line 40: new BVHNode(minPoint, maxPoint, triangles).
BVHNode(lo, hi, triangles) ==
  [ min |-> lo, max |-> hi, triangles |-> triangles,
    left |-> NoNode, right |-> NoNode, depth |-> NewNodeDepth,
    collision |-> FALSE ]

Frame(addr, triangles, max_depth) ==
  [ node |-> addr, triangles |-> triangles, max_depth |-> max_depth,
    pc |-> "start", leftTriangles |-> << >>, rightTriangles |-> << >> ]

Top == stack[Len(stack)]
Pop == SubSeq(stack, 1, Len(stack) - 1)

Identity == [ d |-> <<1, 1, 1>>, t |-> <<0, 0, 0>> ]
Translate(x, y, z) == [ d |-> <<1, 1, 1>>, t |-> <<x, y, z>> ]
MirrorX == [ d |-> <<-1, 1, 1>>, t |-> <<0, 0, 0>> ]

NoFlags == [ node |-> << >>, tri |-> << >> ]

Init ==
  /\ \E a \in MeshLists(PoolA), b \in MeshLists(PoolB) : mesh = << a, b >>
  /\ triCollision = [m \in Meshes |-> [t \in 1 .. Len(mesh[m]) |-> FALSE]]
  /\ matrices = << Identity, Identity >>
  /\ oracle = "always"
  /\ work = << >>
  /\ calls = 0
  /\ cleanStart = TRUE
  /\ before = NoFlags
  /\ afterFirst = NoFlags
  /\ cfgDepth \in 0 .. MaxDepth
  /\ cfgMinTris \in 1 .. MaxMinTris
  /\ phase = "construct"
  /\ building = 1
  /\ tree = [m \in Meshes |-> << >>]
  /\ root = [m \in Meshes |-> NoNode]
  /\ stack = << Frame(RootAddr, [i \in 1 .. Len(mesh[1]) |-> i], cfgDepth) >>
  /\ ret = NoNode
  /\ argDepth = [m \in Meshes |-> << >>]

\* Line 21: triangles.at(0) on an empty list throws.
ConstructAbort ==
  /\ phase = "construct" /\ ret = NoNode /\ stack # << >>
  /\ Top.pc = "start"
  /\ Top.triangles = << >>
  /\ phase' = "aborted"
  /\ UNCHANGED << tree, buildVars, testVars >>

\* Lines 19-134 and 151: a call computes the box, makes the node, splits
\* the list and either calls itself for the left half or returns the node.
ConstructCall ==
  /\ phase = "construct" /\ ret = NoNode /\ stack # << >>
  /\ Top.pc = "start"
  /\ Top.triangles # << >>
  /\ LET m     == building
         f     == Top
         node  == BVHNode(minPoint(m, f.triangles), maxPoint(m, f.triangles),
                          f.triangles)
         left  == leftTriangles(m, f.triangles)
         right == rightTriangles(m, f.triangles)
     IN  /\ tree' = [tree EXCEPT ![m] =
                       [a \in DOMAIN tree[m] \cup {f.node} |->
                          IF a = f.node THEN node ELSE tree[m][a]]]
         /\ argDepth' = [argDepth EXCEPT ![m] =
                       [a \in DOMAIN argDepth[m] \cup {f.node} |->
                          IF a = f.node THEN f.max_depth ELSE argDepth[m][a]]]
         /\ IF canSplit(left, right, node, f.max_depth)
            THEN /\ stack' =
                      Append([stack EXCEPT ![Len(stack)] =
                                [f EXCEPT !.pc = "left",
                                          !.leftTriangles = left,
                                          !.rightTriangles = right]],
                             Frame(Append(f.node, 0), left,
                                   childDepth(left, f.max_depth, cfgMinTris)))
                 /\ ret' = NoNode
            ELSE /\ stack' = Pop
                 /\ ret' = f.node
  /\ UNCHANGED << mesh, cfgDepth, cfgMinTris, phase, building, root, testVars >>

\* Lines 134/138 and 141-148: set_left with the returned node, then the
\* call for the right half.
SetLeft ==
  /\ phase = "construct" /\ ret # NoNode /\ stack # << >>
  /\ Top.pc = "left"
  /\ tree' = [tree EXCEPT ![building][Top.node].left = ret]
  /\ stack' = Append([stack EXCEPT ![Len(stack)].pc = "right"],
                     Frame(Append(Top.node, 1), Top.rightTriangles,
                           childDepth(Top.rightTriangles, Top.max_depth,
                                      cfgMinTris)))
  /\ ret' = NoNode
  /\ UNCHANGED << mesh, cfgDepth, cfgMinTris, phase, building, root, argDepth,
                  testVars >>

\* Lines 143/147 and 151: set_right with the returned node, return node.
SetRight ==
  /\ phase = "construct" /\ ret # NoNode /\ stack # << >>
  /\ Top.pc = "right"
  /\ tree' = [tree EXCEPT ![building][Top.node].right = ret]
  /\ stack' = Pop
  /\ ret' = Top.node
  /\ UNCHANGED << mesh, cfgDepth, cfgMinTris, phase, building, root, argDepth,
                  testVars >>

\* The outermost call returns the root to the application, which builds
\* the tree of the second mesh next.
ConstructReturnRoot ==
  /\ phase = "construct" /\ ret # NoNode /\ stack = << >>
  /\ root' = [root EXCEPT ![building] = ret]
  /\ ret' = NoNode
  /\ IF building = 1
     THEN /\ building' = 2
          /\ stack' = << Frame(RootAddr, [i \in 1 .. Len(mesh[2]) |-> i],
                               cfgDepth) >>
          /\ phase' = phase
     ELSE /\ phase' = "ready"
          /\ UNCHANGED << building, stack >>
  /\ UNCHANGED << mesh, cfgDepth, cfgMinTris, tree, argDepth, testVars >>

(* ---------------------------------------------------------------------- *)
(* Application::test_collision                                             *)
(* ---------------------------------------------------------------------- *)

\* glm::mat4 * glm::vec4 for a matrix with diagonal d and translation t
\* and a point with w = 1.
Mul(M, p) == [a \in Axes |-> M.d[a] * p[a] + M.t[a]]

\* The placements of the two meshes the application tests.
MatrixPairs ==
  { << Identity, Identity >>,
    << Identity, Translate(4, 0, 0) >>,
    << Identity, Translate(0, 20, 0) >>,
    << Translate(0, 0, 6), Identity >>,
    << Identity, MirrorX >> }

Oracles == { "always", "boxes", "vertex" }

WorldVertices(tr, M) == { Mul(M, v) : v \in getVertices(tr) }

\* The closed world-space bounding boxes of two triangles meet.
TriBoxesMeet(t1, M1, t2, M2) ==
  \A a \in Axes :
    /\ MaxOf({ v[a] : v \in WorldVertices(t1, M1) })
         >= MinOf({ v[a] : v \in WorldVertices(t2, M2) })
    /\ MinOf({ v[a] : v \in WorldVertices(t1, M1) })
         <= MaxOf({ v[a] : v \in WorldVertices(t2, M2) })

\* The external primitive: a deterministic function of its arguments.
triangle_triangle_intersection(t1, M1, t2, M2) ==
  CASE oracle = "always" -> TRUE
    [] oracle = "boxes"  -> TriBoxesMeet(t1, M1, t2, M2)
    [] oracle = "vertex" -> WorldVertices(t1, M1) \cap WorldVertices(t2, M2) # {}

\* Lines 175-177 with only the x axis compared.
boxesOverlapXOnly(firstMin, firstMax, secondMin, secondMax) ==
  firstMax[1] >= secondMin[1] /\ firstMin[1] <= secondMax[1]

\* Lines 175-177 with strict comparisons.
boxesOverlapStrict(firstMin, firstMax, secondMin, secondMax) ==
  \A a \in Axes : firstMax[a] > secondMin[a] /\ firstMin[a] < secondMax[a]

\* Lines 175-177: the negation of the pruning condition.
boxesOverlap(firstMin, firstMax, secondMin, secondMax) ==
  ~ ( \/ ~ (firstMax[1] >= secondMin[1] /\ firstMin[1] <= secondMax[1])
      \/ ~ (firstMax[2] >= secondMin[2] /\ firstMin[2] <= secondMax[2])
      \/ ~ (firstMax[3] >= secondMin[3] /\ firstMin[3] <= secondMax[3]) )

\* Lines 168-177 for two nodes.
nodesOverlap(first_node, second_node) ==
  boxesOverlap(Mul(matrices[1], first_node.min), Mul(matrices[1], first_node.max),
               Mul(matrices[2], second_node.min), Mul(matrices[2], second_node.max))

\* Lines 191, 213, 219: &node.get_left() == nullptr
isLeaf(node) == node.left = NoNode

\* Lines 201-205 with the flag assigned the primitive's result.
markedAssigned(old, hit) == hit

\* Lines 201-205: the flag after one pair has been tested.
marked(old, hit) == old \/ hit

\* Lines 197-207: the first mesh's triangle flags after the double loop.
RECURSIVE loopFlags(_, _, _, _, _)
loopFlags(flags, m, own, other, k) ==
  \* k runs over the pairs (i, j) in loop order, i outer and j inner,
  \* with own = first_triangles and other = second_triangles for m = 1.
  IF k > Len(own) * Len(other) THEN flags
  ELSE LET i == ((k - 1) \div Len(other)) + 1
           j == ((k - 1) % Len(other)) + 1
           hit == IF m = 1
                  THEN triangle_triangle_intersection(
                         Tri(1, own[i]), matrices[1], Tri(2, other[j]), matrices[2])
                  ELSE triangle_triangle_intersection(
                         Tri(1, other[j]), matrices[1], Tri(2, own[i]), matrices[2])
       IN  loopFlags([flags EXCEPT ![own[i]] = marked(flags[own[i]], hit)],
                     m, own, other, k + 1)

Flags ==
  [ node |-> [m \in Meshes |-> [a \in DOMAIN tree[m] |-> tree[m][a].collision]],
    tri  |-> triCollision ]

Pair(a, b) == [ a |-> a, b |-> b ]

\* Lines 187-188 without the second assignment.
flagFirstOnly(t, a, b) == [t EXCEPT ![1][a].collision = TRUE]

\* Lines 187-188: both nodes are marked as colliding.
flagNodes(t, a, b) ==
  [t EXCEPT ![1][a].collision = TRUE, ![2][b].collision = TRUE]

\* Lines 213-231: the recursive calls, in call order.
childPairs(a, first_node, b, second_node) ==
  IF isLeaf(first_node)
  THEN << Pair(a, second_node.left), Pair(a, second_node.right) >>
  ELSE IF isLeaf(second_node)
  THEN << Pair(first_node.left, b), Pair(first_node.right, b) >>
  ELSE << Pair(first_node.left, second_node.left),
          Pair(first_node.left, second_node.right),
          Pair(first_node.right, second_node.left),
          Pair(first_node.right, second_node.right) >>

Reverse(s) == [i \in 1 .. Len(s) |-> s[Len(s) + 1 - i]]

TopCall == work[Len(work)]
RestOfWork == SubSeq(work, 1, Len(work) - 1)

\* The application calls test_collision on the two roots.  The flags are
\* the caller's: it has reset them, or it has not.
StartTest ==
  /\ phase = "ready" /\ calls = 0
  /\ \E mp \in MatrixPairs, o \in Oracles, dirty \in BOOLEAN :
       /\ matrices' = mp
       /\ oracle' = o
       /\ cleanStart' = ~ dirty
       /\ triCollision' =
            IF dirty
            THEN [triCollision EXCEPT ![1][1] = TRUE,
                                      ![2][Len(mesh[2])] = TRUE]
            ELSE triCollision
       /\ tree' = IF dirty
                  THEN [tree EXCEPT ![2][root[2]].collision = TRUE]
                  ELSE tree
  /\ work' = << Pair(root[1], root[2]) >>
  /\ before' = Flags'
  /\ phase' = "test"
  /\ UNCHANGED << buildVars, calls, afterFirst >>

\* Lines 175-182: the boxes do not overlap, the call returns.
Prune ==
  /\ phase = "test" /\ work # << >>
  /\ TopCall.a # NoNode /\ TopCall.b # NoNode
  /\ ~ nodesOverlap(tree[1][TopCall.a], tree[2][TopCall.b])
  /\ work' = RestOfWork
  /\ UNCHANGED << phase, tree, buildVars, triCollision, matrices, oracle,
                  calls, cleanStart, before, afterFirst >>

\* Lines 184-208: both nodes are leaves, every pair of triangles is tested.
LeafPair ==
  /\ phase = "test" /\ work # << >>
  /\ TopCall.a # NoNode /\ TopCall.b # NoNode
  /\ LET a == TopCall.a
         b == TopCall.b
         first_node == tree[1][a]
         second_node == tree[2][b]
     IN  /\ nodesOverlap(first_node, second_node)
         /\ isLeaf(first_node) /\ isLeaf(second_node)
         /\ tree' = flagNodes(tree, a, b)
         /\ triCollision' =
              [triCollision EXCEPT
                 ![1] = loopFlags(@, 1, first_node.triangles,
                                  second_node.triangles, 1),
                 ![2] = loopFlags(@, 2, second_node.triangles,
                                  first_node.triangles, 1)]
  /\ work' = RestOfWork
  /\ UNCHANGED << phase, buildVars, matrices, oracle, calls, cleanStart,
                  before, afterFirst >>

\* Lines 184-189 and 209-232: a node has children, the calls for the
\* children follow.
Descend ==
  /\ phase = "test" /\ work # << >>
  /\ TopCall.a # NoNode /\ TopCall.b # NoNode
  /\ LET a == TopCall.a
         b == TopCall.b
         first_node == tree[1][a]
         second_node == tree[2][b]
     IN  /\ nodesOverlap(first_node, second_node)
         /\ ~ (isLeaf(first_node) /\ isLeaf(second_node))
         /\ tree' = flagNodes(tree, a, b)
         /\ work' = RestOfWork \o
                    Reverse(childPairs(a, first_node, b, second_node))
  /\ UNCHANGED << phase, buildVars, triCollision, matrices, oracle, calls,
                  cleanStart, before, afterFirst >>

\* The outermost call returns to the application.
TestReturn ==
  /\ phase = "test" /\ work = << >>
  /\ calls' = calls + 1
  /\ afterFirst' = IF calls = 0 THEN Flags ELSE afterFirst
  /\ phase' = IF calls = 0 THEN "ready" ELSE "done"
  /\ UNCHANGED << tree, buildVars, triCollision, matrices, oracle, work,
                  cleanStart, before >>

\* The application calls test_collision again with the same arguments
\* and without resetting a flag.
Retest ==
  /\ phase = "ready" /\ calls = 1
  /\ work' = << Pair(root[1], root[2]) >>
  /\ cleanStart' = FALSE
  /\ before' = Flags
  /\ phase' = "test"
  /\ UNCHANGED << tree, buildVars, triCollision, matrices, oracle, calls,
                  afterFirst >>

Construct ==
  \/ ConstructAbort
  \/ ConstructCall
  \/ SetLeft
  \/ SetRight
  \/ ConstructReturnRoot

TestCollision ==
  \/ StartTest
  \/ Prune
  \/ LeafPair
  \/ Descend
  \/ TestReturn
  \/ Retest

Next == Construct \/ TestCollision

Spec == Init /\ [][Next]_vars

\* The tree builder alone.  construct is synchronous code: a call that can
\* take its next step takes it.
BuildSpec == Init /\ [][Construct]_vars /\ WF_vars(Construct)

(* ---------------------------------------------------------------------- *)
(* Properties of the trees construct returns                               *)
(* ---------------------------------------------------------------------- *)
Built(m) == root[m] # NoNode
Nodes(m) == DOMAIN tree[m]
TriSet(m, a) == Range(tree[m][a].triangles)
HasChildren(node) == node.left # NoNode \/ node.right # NoNode
FullList(m) == [i \in 1 .. Len(mesh[m]) |-> i]

\* The coordinates along one axis of the vertices of a node's triangles.
CoordsOf(m, a, axis) ==
  { Tri(m, t)[k][axis] : t \in TriSet(m, a), k \in 1 .. 3 }

\* A call on this list would find a triangle for each side.
Separable(m, triangles) ==
  /\ triangles # << >>
  /\ leftTriangles(m, triangles) # << >>
  /\ rightTriangles(m, triangles) # << >>

\* The triangle has vertices on both sides of the node's split plane.
Straddles(m, a, t) ==
  LET node == tree[m][a]
      axis == splitAxis(node.min, node.max)
      split2 == splitCoord2(node.min, node.max)
  IN  /\ \E k \in 1 .. 3 : 2 * Tri(m, t)[k][axis] <= split2
      /\ \E k \in 1 .. 3 : 2 * Tri(m, t)[k][axis] > split2

\* C1: in a tree construct has returned, every node that has children has
\* both, the two children's triangle sets are disjoint, and their union is
\* the node's own triangle set.
C1_Partition ==
  \A m \in Meshes :
    Built(m) =>
      \A a \in Nodes(m) :
        HasChildren(tree[m][a]) =>
          /\ tree[m][a].left \in Nodes(m)
          /\ tree[m][a].right \in Nodes(m)
          /\ TriSet(m, tree[m][a].left) \cap TriSet(m, tree[m][a].right) = {}
          /\ TriSet(m, tree[m][a].left) \cup TriSet(m, tree[m][a].right)
               = TriSet(m, a)

\* A returned tree with a node of three triangles that has children and a
\* triangle straddling its split plane.
C1_Witness ==
  /\ Built(1)
  /\ \E a \in Nodes(1) :
       /\ HasChildren(tree[1][a])
       /\ Len(tree[1][a].triangles) = 3
       /\ \E t \in TriSet(1, a) : Straddles(1, a, t)

\* C2: the box of every node is, on each axis, exactly the least and the
\* greatest coordinate of the vertices of the node's own triangles, so all
\* of these vertices lie within the box.
C2_TightBox ==
  \A m \in Meshes :
    \A a \in Nodes(m) :
      \A axis \in Axes :
        /\ \A c \in CoordsOf(m, a, axis) :
             tree[m][a].min[axis] <= c /\ c <= tree[m][a].max[axis]
        /\ tree[m][a].min[axis] \in CoordsOf(m, a, axis)
        /\ tree[m][a].max[axis] \in CoordsOf(m, a, axis)

\* A returned tree with a child whose box is smaller than its parent's
\* and does not touch the origin.
C2_Witness ==
  /\ Built(1)
  /\ \E a \in Nodes(1) :
       /\ tree[1][a].right # NoNode
       /\ tree[1][tree[1][a].right].min # tree[1][a].min
       /\ tree[1][tree[1][a].right].min[1] > 0

ChainDecreases ==
  /\ Len(stack) <= cfgDepth + 1
  /\ \A i \in 1 .. Len(stack) :
       /\ stack[i].max_depth >= 0
       /\ i > 1 => stack[i].max_depth < stack[i - 1].max_depth
       /\ stack[i].pc # "start" =>
            /\ stack[i].leftTriangles # << >>
            /\ stack[i].rightTriangles # << >>

C8_StrictBinary ==
  /\ \A m \in Meshes :
       /\ \A a \in Nodes(m) : tree[m][a].triangles # << >>
       /\ Built(m) =>
            \A a \in Nodes(m) :
              (tree[m][a].left = NoNode) <=> (tree[m][a].right = NoNode)
  /\ \A i \in 2 .. Len(stack) : stack[i].triangles # << >>
  /\ \A i \in 1 .. Len(work) :
       work[i].a \in Nodes(1) /\ work[i].b \in Nodes(2)

\* test_collision is about to be called on the right child of a node of
\* the first tree and on a leaf of the second.
C8_Witness ==
  /\ phase = "test"
  /\ work # << >>
  /\ \E p \in Nodes(1) : tree[1][p].right = TopCall.a
  /\ TopCall.b \in Nodes(2)
  /\ isLeaf(tree[2][TopCall.b])

(* ---------------------------------------------------------------------- *)
(* Properties of test_collision                                            *)
(* ---------------------------------------------------------------------- *)

\* World-space corners of the two roots' boxes.
RootCorner(m, which) ==
  Mul(matrices[m], IF which = "min" THEN tree[m][root[m]].min
                                    ELSE tree[m][root[m]].max)

\* The roots' world-space boxes fail to overlap on at least one axis.
RootsSeparated ==
  \E axis \in Axes :
    \/ RootCorner(1, "max")[axis] < RootCorner(2, "min")[axis]
    \/ RootCorner(1, "min")[axis] > RootCorner(2, "max")[axis]

\* A call of test_collision on the roots is running or has returned.
CallMade == phase = "test" \/ calls >= 1

NodeFlag(m, a) == tree[m][a].collision

AnyFlag ==
  \/ \E m \in Meshes : \E a \in Nodes(m) : NodeFlag(m, a)
  \/ \E m \in Meshes : \E t \in DOMAIN triCollision[m] : triCollision[m][t]

\* C3: when the roots' world-space boxes fail to overlap on some axis, the
\* call returns without recursing and no flag of either tree differs from
\* its value at the start of the call.
C3_PrunedCallTouchesNothing ==
  (CallMade /\ RootsSeparated) =>
    /\ Flags = before
    /\ work \in { << >>, << Pair(root[1], root[2]) >> }

\* A pruned call on two trees with children has returned, with a
\* primitive that reports every pair of triangles as intersecting.
C3_Witness ==
  /\ phase = "test" /\ work = << >>
  /\ RootsSeparated
  /\ oracle = "always"
  /\ cleanStart
  /\ HasChildren(tree[1][root[1]])
  /\ HasChildren(tree[2][root[2]])
  /\ \E axis \in Axes :
       /\ RootCorner(1, "max")[axis] >= RootCorner(2, "min")[axis]
       /\ RootCorner(1, "min")[axis] <= RootCorner(2, "max")[axis]

\* No flag that is true becomes false.
FlagsKept ==
  /\ \A m \in Meshes : \A a \in Nodes(m) :
       NodeFlag(m, a) => tree'[m][a].collision
  /\ \A m \in Meshes : \A t \in DOMAIN triCollision[m] :
       triCollision[m][t] => triCollision'[m][t]

\* C4: a second call with the same arguments, made without resetting any
\* flag, leaves every flag as the first call left it, and no step of a
\* call turns a true flag false.
C4_SecondCallChangesNothing ==
  /\ [] (calls = 2 => Flags = afterFirst)
  /\ [][phase = "test" => FlagsKept]_vars

\* Two calls have returned; they started from flags the caller had left
\* set, and the first call set a triangle flag of its own.
C4_Witness ==
  /\ phase = "done"
  /\ \E t \in DOMAIN triCollision[1] : t # 1 /\ triCollision[1][t]
  /\ \E t \in DOMAIN triCollision[1] : ~ triCollision[1][t]
  /\ HasChildren(tree[1][root[1]])

IsTranslation(M) == M.d = <<1, 1, 1>>

\* The primitive reports only pairs whose world-space boxes overlap.
PrimitiveWithinBoxes ==
  \A t \in DOMAIN mesh[1] : \A u \in DOMAIN mesh[2] :
    triangle_triangle_intersection(Tri(1, t), matrices[1], Tri(2, u), matrices[2])
      => TriBoxesMeet(Tri(1, t), matrices[1], Tri(2, u), matrices[2])

\* One call, started with all flags false, has returned.
FirstCleanCallDone == phase = "ready" /\ calls = 1 /\ cleanStart

\* C9: after one call started with all flags false, with translations as
\* matrices and a primitive that reports only pairs whose boxes overlap, a
\* triangle is flagged iff the primitive reports it with some triangle of
\* the other mesh.
C9_SameAsAllPairs ==
  ( /\ FirstCleanCallDone
    /\ IsTranslation(matrices[1]) /\ IsTranslation(matrices[2])
    /\ PrimitiveWithinBoxes ) =>
      /\ \A t \in DOMAIN mesh[1] :
           triCollision[1][t] <=>
             \E u \in DOMAIN mesh[2] :
               triangle_triangle_intersection(
                 Tri(1, t), matrices[1], Tri(2, u), matrices[2])
      /\ \A u \in DOMAIN mesh[2] :
           triCollision[2][u] <=>
             \E t \in DOMAIN mesh[1] :
               triangle_triangle_intersection(
                 Tri(1, t), matrices[1], Tri(2, u), matrices[2])

\* Such a call on two trees with children, where pruning cut off a node
\* of the first tree, one triangle of the first mesh is flagged and
\* another is not.
C9_Witness ==
  /\ FirstCleanCallDone
  /\ IsTranslation(matrices[1]) /\ IsTranslation(matrices[2])
  /\ PrimitiveWithinBoxes
  /\ HasChildren(tree[1][root[1]])
  /\ HasChildren(tree[2][root[2]])
  /\ \E a \in Nodes(1) : ~ NodeFlag(1, a)
  /\ \E t \in DOMAIN mesh[1] : triCollision[1][t]
  /\ \E t \in DOMAIN mesh[1] : ~ triCollision[1][t]

\* C10: during and after a call started with all flags false, every
\* flagged node other than the root is the child of a flagged node, and
\* every flagged triangle is referenced by a flagged leaf of its tree.
C10_FlagsClosedUnderParent ==
  (CallMade /\ cleanStart) =>
    \A m \in Meshes :
      /\ \A a \in Nodes(m) :
           (NodeFlag(m, a) /\ a # root[m]) =>
             \E p \in Nodes(m) :
               /\ tree[m][p].left = a \/ tree[m][p].right = a
               /\ NodeFlag(m, p)
      /\ \A t \in DOMAIN triCollision[m] :
           triCollision[m][t] =>
             \E a \in Nodes(m) :
               /\ isLeaf(tree[m][a])
               /\ NodeFlag(m, a)
               /\ t \in TriSet(m, a)

\* Such a call has returned, leaving a flagged triangle under a flagged
\* leaf at depth two and the sibling of a flagged node unflagged.
C10_Witness ==
  /\ FirstCleanCallDone
  /\ \E a \in Nodes(1) :
       /\ Len(a) = 2
       /\ NodeFlag(1, a)
       /\ \E t \in TriSet(1, a) : triCollision[1][t]
  /\ \E p \in Nodes(1) :
       /\ HasChildren(tree[1][p])
       /\ NodeFlag(1, tree[1][p].left) # NodeFlag(1, tree[1][p].right)
  /\ \E u \in DOMAIN triCollision[2] : triCollision[2][u]
====
